---------------------------- MODULE Spec2Model ----------------------------
(***************************************************************************)
(* A model of viewproxy: the router (src/route.go, the Server of           *)
(* src/response_builder.go), the multiplexer (package multiplexer of       *)
(* src/pkg/server/server.go), the response assembler and the Server as an  *)
(* http.Handler (src/response_builder.go), and the signing of outbound     *)
(* requests (src/pkg/server/server.go).                                    *)
(*                                                                         *)
(* Go strings and byte slices are sequences of one-character strings, so   *)
(* that strings.Split, strings.HasPrefix and bytes.Replace are computed    *)
(* the way the library computes them.                                      *)
(***************************************************************************)
EXTENDS Integers, Sequences, FiniteSets, TLC

VARIABLES
    \* ---- Route (src/route.go) under test: one route, one path
    route,        \* the *Route built by newRoute
    path,         \* the URL path handed to strings.Split
    matched,      \* [done, value]: what matchParts returned
    params,       \* [done, value]: what parametersFor returned
    \* ---- Server (src/response_builder.go): the route table and a lookup
    routes,       \* Server.routes
    registered,   \* history: the arguments of the Get calls, in call order
    lookup,       \* [done, path, after, value]: the last matchingRoute call, the
                  \* number of Get calls before it, and what it returned
    \* ---- multiplexer.Request and one call of Request.Do
    \*      (src/pkg/server/server.go, package multiplexer)
    env,          \* the inputs of the run: [statuses, maxFragments]: the statuses
                  \* the upstream answers with and the most WithFragment calls
    fragments,    \* Request.fragments
    Non2xxErrors, \* Request.Non2xxErrors
    sup,          \* where Do is: "new", "launch", "select", "returned"
    task,         \* the fetch goroutines launched so far: [pc, result, err] and,
                  \* as history, status (the status of the response fetchUrl built
                  \* a Result from, 0 if none) and late (fetchUrl returned after Do)
    wg,           \* the sync.WaitGroup counter
    waiter,       \* the goroutine of lines 231-234: "none", "waiting", "closed"
    resultsCh,    \* the values buffered in resultsCh, oldest first
    ctxErr,       \* ctx.Err() of the context of line 189: "no" while it is not done
    ret,          \* what Do returned: [done, results, err, seen]
    events,       \* history: the terminal conditions in the order they occurred
    \* ---- responseBuilder (src/response_builder.go)
    rb,           \* the responseBuilder: [body, StatusCode]
    DefaultPageTitle, \* Server.DefaultPageTitle
    built         \* history: [layout, done, fragments, title]: the argument of
                  \* the SetLayout call and, once done, the argument of the
                  \* SetFragments call on rb and the pageTitle it resolved
    ,
    \* ---- Server as an http.Handler (src/response_builder.go)
    ignoreHeaders, \* the keys of Server.ignoreHeaders (none while the map is nil)
    ignored,      \* history: the names IgnoreHeader was called with, as given
    listening,    \* ListenAndServe has been called
    served,       \* history of the last ServeHTTP or SetHeaders call: what the
                  \* fetch returned, the result slots read, the headers and the
                  \* body written, and the value of ignored when it was called
    \* ---- the outbound request of one fetch (package multiplexer)
    request,      \* the multiplexer.Request: [Header, HmacSecret, Timeout]
    clock,        \* time.Now().Unix()
    outbound      \* history of the last fetch: [done, by, url, Header, deadline, at]

routeVars  == <<route, path, matched, params>>
serverVars == <<routes, registered, lookup>>
muxVars == <<env, fragments, Non2xxErrors, sup, task, wg, waiter, resultsCh, ctxErr, ret, events>>
builderVars == <<rb, DefaultPageTitle, built>>
handlerVars == <<ignoreHeaders, ignored, listening, served>>
signVars == <<request, clock, outbound>>
vars == <<routeVars, serverVars, muxVars, builderVars, handlerVars, signVars>>

(***************************************************************************)
(* Bounds.                                                                 *)
(***************************************************************************)
MaxPathLen == 3       \* longest route pattern / URL path, in characters
MaxRoutes == 2        \* most routes registered with Server.Get

(***************************************************************************)
(* Strings.                                                                *)
(***************************************************************************)
PathChars == {"/", ":", "a"}

RECURSIVE StringsOfLen(_, _)
StringsOfLen(chars, n) ==
    IF n = 0 THEN {<<>>}
    ELSE {<<c>> \o s : c \in chars, s \in StringsOfLen(chars, n - 1)}

StringsUpTo(chars, n) == UNION {StringsOfLen(chars, k) : k \in 0..n}

\* the Go nil
Nil == [nil |-> TRUE]

\* strings.HasPrefix(s, ":")
HasPrefix(s, c) == Len(s) >= 1 /\ s[1] = c

\* strings.Split(s, "/"): the substrings between the separators; a string
\* without a separator is returned whole, also when it is empty
RECURSIVE Split(_)
Split(s) ==
    IF \A i \in 1..Len(s) : s[i] # "/" THEN <<s>>
    ELSE LET i == CHOOSE k \in 1..Len(s) :
                      s[k] = "/" /\ \A j \in 1..(k - 1) : s[j] # "/"
         IN  <<SubSeq(s, 1, i - 1)>> \o Split(SubSeq(s, i + 1, Len(s)))

(***************************************************************************)
(* Route (src/route.go).                                                   *)
(***************************************************************************)
newRoute(p, layout, frags) ==
    [Parts |-> Split(p), Layout |-> layout, fragments |-> frags]

\* the loop of matchParts from index i on (1-based)
RECURSIVE matchPartsFrom(_, _, _)
matchPartsFrom(r, pathParts, i) ==
    IF i > Len(r.Parts) THEN TRUE
    ELSE IF r.Parts[i] # pathParts[i] /\ ~HasPrefix(r.Parts[i], ":") THEN FALSE
    ELSE matchPartsFrom(r, pathParts, i + 1)

matchPartsNoLen(r, pathParts) ==
    matchPartsFrom([r EXCEPT !.Parts = SubSeq(r.Parts, 1,
        IF Len(r.Parts) < Len(pathParts) THEN Len(r.Parts) ELSE Len(pathParts))],
        pathParts, 1)

matchParts(r, pathParts) ==
    IF Len(r.Parts) # Len(pathParts) THEN FALSE
    ELSE matchPartsFrom(r, pathParts, 1)

\* parameters[paramName] = value on a Go map
MapSet(m, k, v) == [x \in (DOMAIN m) \cup {k} |-> IF x = k THEN v ELSE m[x]]

EmptyMap == [x \in {} |-> <<>>]

\* the loop of parametersFor from index i on, parameters being the map so far
RECURSIVE parametersForFrom(_, _, _, _)
parametersForFrom(r, pathParts, i, parameters) ==
    IF i > Len(r.Parts) THEN parameters
    ELSE IF HasPrefix(r.Parts[i], ":")
         THEN parametersForFrom(r, pathParts, i + 1,
                  MapSet(parameters, SubSeq(r.Parts[i], 2, Len(r.Parts[i])),
                         pathParts[i]))
         ELSE parametersForFrom(r, pathParts, i + 1, parameters)

parametersForKeepFirst(r, pathParts) ==
    LET RECURSIVE go(_, _)
        go(i, parameters) ==
            IF i > Len(r.Parts) THEN parameters
            ELSE IF HasPrefix(r.Parts[i], ":")
                      /\ SubSeq(r.Parts[i], 2, Len(r.Parts[i])) \notin DOMAIN parameters
                 THEN go(i + 1, MapSet(parameters,
                          SubSeq(r.Parts[i], 2, Len(r.Parts[i])), pathParts[i]))
                 ELSE go(i + 1, parameters)
    IN  go(1, EmptyMap)

parametersFor(r, pathParts) == parametersForFrom(r, pathParts, 1, EmptyMap)

Unset == [done |-> FALSE, value |-> Nil]

RouteInit ==
    /\ route \in {newRoute(p, "layout", <<>>) : p \in StringsUpTo(PathChars, MaxPathLen)}
    /\ path \in StringsUpTo(PathChars, MaxPathLen)
    /\ matched = Unset
    /\ params = Unset

\* got := route.matchParts(strings.Split(providedUrl, "/"))
MatchParts ==
    /\ ~matched.done
    /\ matched' = [done |-> TRUE, value |-> matchParts(route, Split(path))]
    /\ UNCHANGED <<route, path, params>>
    /\ UNCHANGED <<serverVars, muxVars, builderVars, handlerVars, signVars>>

\* parameters := route.parametersFor(parts), called once matchParts said yes
ParametersFor ==
    /\ matched.done /\ matched.value = TRUE
    /\ ~params.done
    /\ params' = [done |-> TRUE, value |-> parametersFor(route, Split(path))]
    /\ UNCHANGED <<route, path, matched>>
    /\ UNCHANGED <<serverVars, muxVars, builderVars, handlerVars, signVars>>

(***************************************************************************)
(* Server: the route table (src/response_builder.go).                      *)
(***************************************************************************)
\* the patterns registered and the paths looked up: overlapping literal and
\* parameter routes of one and two segments
RoutePatterns ==
    { <<"/">>, <<"/", "a">>, <<"/", ":">>, <<"/", ":", "a">>, <<"/", "a", "/", ":", "a">> }
LookupPaths ==
    { <<"/">>, <<"/", "a">>, <<"/", "a", "a">>, <<"/", "a", "/", "a">>, <<"a">> }
Layouts == {"layout1", "layout2"}

ServerInit ==
    /\ routes = <<>>
    /\ registered = <<>>
    /\ lookup = Unset

GetPrepend(rs, r) == <<r>> \o rs

\* Server.Get: s.routes = append(s.routes, *route)
GetAppend(rs, r) == Append(rs, r)

Get(p, layout, frags) ==
    /\ Len(routes) < MaxRoutes
    /\ routes' = GetAppend(routes, newRoute(p, layout, frags))
    /\ registered' = Append(registered, <<p, layout, frags>>)
    /\ UNCHANGED lookup
    /\ UNCHANGED <<routeVars, muxVars, builderVars, handlerVars, signVars>>

\* the range loop of Server.matchingRoute from index i on
RECURSIVE matchingRouteFrom(_, _, _)
matchingRouteFrom(rs, parts, i) ==
    IF i > Len(rs) THEN [idx |-> 0, route |-> Nil, parameters |-> Nil]
    ELSE IF matchParts(rs[i], parts)
         THEN [idx |-> i, route |-> rs[i], parameters |-> parametersFor(rs[i], parts)]
         ELSE matchingRouteFrom(rs, parts, i + 1)

\* a lookup that keeps scanning and returns the last match
matchingRouteLast(rs, p) ==
    LET parts == Split(p)
        hits == {i \in 1..Len(rs) : matchParts(rs[i], parts)}
    IN  IF hits = {} THEN [idx |-> 0, route |-> Nil, parameters |-> Nil]
        ELSE LET i == CHOOSE k \in hits : \A j \in hits : j <= k
             IN  [idx |-> i, route |-> rs[i], parameters |-> parametersFor(rs[i], parts)]

matchingRoute(rs, p) == matchingRouteFrom(rs, Split(p), 1)

\* route, parameters := s.matchingRoute(r.URL.Path)
Lookup(p) ==
    /\ lookup' = [done |-> TRUE, path |-> p, after |-> Len(registered),
                  value |-> matchingRoute(routes, p)]
    /\ UNCHANGED <<routes, registered>>
    /\ UNCHANGED <<routeVars, muxVars, builderVars, handlerVars, signVars>>

RouteIdle ==
    /\ route = newRoute(<<>>, "layout", <<>>)
    /\ path = <<>>
    /\ matched = Unset
    /\ params = Unset

(***************************************************************************)
(* Multiplexer: Request and Request.Do (src/pkg/server/server.go).         *)
(***************************************************************************)
MaxFragments == 2     \* most fragments added with WithFragment
MaxStatusFragments == 1   \* the same in the runs that try every status

Urls == {"u1", "u2"}
OkAndRedirect == {200, 300}
Statuses == {199, 200, 299, 300}

\* what the transport and the upstream do to one fetch: client.Do fails, or
\* a response arrives with a status and a body that is not gzip-encoded, is
\* well-formed gzip or is broken gzip
Upstream ==
    {[kind |-> "fail"]}
        \cup [kind : {"response"}, status : env.statuses, gzip : {"none", "ok", "bad"}]

\* r.Non2xxErrors && (resp.StatusCode < 200 || resp.StatusCode > 299)
IsNon2xxOffByOne(strict, status) == strict /\ (status < 200 \/ status >= 299)

IsNon2xx(strict, status) == strict /\ (status < 200 \/ status > 299)

\* Request.fetchUrl called by goroutine i: <<result, err>>.  The response
\* object of a fetch is its own, so HttpResponse names the fetch.
fetchUrl(i, url, strict, up) ==
    IF up.kind = "fail"
    THEN [result |-> Nil, err |-> [kind |-> "transport", task |-> i], status |-> 0]
    ELSE IF up.gzip = "bad"
    THEN [result |-> Nil, err |-> [kind |-> "gzip", task |-> i], status |-> 0]
    ELSE LET result == [Url |-> url, StatusCode |-> up.status, HttpResponse |-> i]
         IN  IF IsNon2xx(strict, up.status)
             THEN [result |-> Nil,
                   err |-> [kind |-> "ResultError", task |-> i, Result |-> result],
                   status |-> up.status]
             ELSE [result |-> result, err |-> Nil, status |-> up.status]

\* the fetch is cut short by the context being done: client.Do or the body
\* read returns the context's error
fetchUrlCtxDone(i, cause) ==
    [result |-> Nil, err |-> [kind |-> "context", task |-> i, cause |-> cause],
     status |-> 0]

\* indexOfResult
RECURSIVE indexOfResultFrom(_, _, _)
indexOfResultFrom(fs, result, i) ==
    IF i > Len(fs) THEN -1
    ELSE IF fs[i].url = result.Url THEN i - 1
    ELSE indexOfResultFrom(fs, result, i + 1)

indexOfResult(fs, result) == indexOfResultFrom(fs, result, 1)

\* sort.SliceStable(results, less) with less comparing indexOfResult: the
\* results in the order of their keys -1, 0, ..., equal keys in the order
\* they have in results
RECURSIVE SortedFrom(_, _, _)
SortedFrom(results, fs, k) ==
    IF k > Len(fs) - 1 THEN <<>>
    ELSE SelectSeq(results, LAMBDA x : indexOfResult(fs, x) = k)
             \o SortedFrom(results, fs, k + 1)

SliceStable(results, fs) == SortedFrom(results, fs, -1)

\* the context.CancelFunc of line 189
cancelNoop(c) == c

cancel(c) == IF c = "no" THEN "Canceled" ELSE c

\* what Do records of the execution at its return (history)
Record(r) == [done |-> TRUE, results |-> r.results, err |-> r.err, seen |-> events]

\* line 239: return make([]*Result, 0), err
ErrReturnPartial(err) == [results |-> resultsCh, err |-> err]

ErrReturn(err) == [results |-> <<>>, err |-> err]

\* line 253: return make([]*Result, 0), ctx.Err()
TimeoutReturnPartial == [results |-> resultsCh, err |-> [kind |-> ctxErr]]

TimeoutReturn == [results |-> <<>>, err |-> [kind |-> ctxErr]]

\* lines 241-251: the len(r.fragments) values of resultsCh, sorted by
\* indexOfResult.  The comparison reads result.Url of every element as soon
\* as there are two: a nil among them is a nil dereference.
DoneReturn ==
    LET results == SubSeq(resultsCh, 1, Len(fragments))
    IN  IF Len(results) >= 2 /\ \E k \in 1..Len(results) : results[k] = Nil
        THEN [results |-> <<>>, err |-> [kind |-> "panic"]]
        ELSE [results |-> SliceStable(results, fragments), err |-> Nil]

Note(e) == IF \E k \in 1..Len(events) : events[k] = e THEN events ELSE Append(events, e)

\* NewRequest
NewRequest == [fragments |-> <<>>, Non2xxErrors |-> TRUE]

MuxInitWith(e) ==
    /\ env = e
    /\ fragments = NewRequest.fragments
    /\ Non2xxErrors = NewRequest.Non2xxErrors
    /\ sup = "new"
    /\ task = <<>>
    /\ wg = 0
    /\ waiter = "none"
    /\ resultsCh = <<>>
    /\ ctxErr = "no"
    /\ ret = [done |-> FALSE, results |-> <<>>, err |-> Nil, seen |-> <<>>]
    /\ events = <<>>

MuxInit == MuxInitWith([statuses |-> OkAndRedirect, maxFragments |-> MaxFragments])

MuxInitStatus == MuxInitWith([statuses |-> Statuses, maxFragments |-> MaxStatusFragments])

MuxIdle == MuxInit

\* Request.WithFragment
WithFragment(u) ==
    /\ sup = "new"
    /\ Len(fragments) < env.maxFragments
    /\ fragments' = Append(fragments, [url |-> u])
    /\ UNCHANGED <<env, Non2xxErrors, sup, task, wg, waiter, resultsCh, ctxErr, ret, events>>
    /\ UNCHANGED <<routeVars, serverVars, builderVars, handlerVars, signVars>>

\* the caller clears the exported field Non2xxErrors
SetNon2xxErrors ==
    /\ sup = "new"
    /\ Non2xxErrors
    /\ Non2xxErrors' = FALSE
    /\ UNCHANGED <<env, fragments, sup, task, wg, waiter, resultsCh, ctxErr, ret, events>>
    /\ UNCHANGED <<routeVars, serverVars, builderVars, handlerVars, signVars>>

\* Do, lines 183-194: the context with the timeout and the channels
DoStart ==
    /\ sup = "new"
    /\ sup' = "launch"
    /\ events' = IF fragments = <<>> THEN Note("allsuccess") ELSE events
    /\ UNCHANGED <<env, fragments, Non2xxErrors, task, wg, waiter, resultsCh, ctxErr, ret>>
    /\ UNCHANGED <<routeVars, serverVars, builderVars, handlerVars, signVars>>

\* Do, lines 196-227: one iteration of the loop: wg.Add(1) and the go
Launch ==
    /\ sup = "launch"
    /\ Len(task) < Len(fragments)
    /\ wg' = wg + 1
    /\ task' = Append(task, [pc |-> "fetch", result |-> Nil, err |-> Nil,
                              status |-> 0, late |-> FALSE])
    /\ UNCHANGED <<env, fragments, Non2xxErrors, sup, waiter, resultsCh, ctxErr, ret, events>>
    /\ UNCHANGED <<routeVars, serverVars, builderVars, handlerVars, signVars>>

\* Do, lines 230-236: the goroutine that waits for wg is started and Do
\* reaches its select
LaunchWaiter ==
    /\ sup = "launch"
    /\ Len(task) = Len(fragments)
    /\ waiter' = "waiting"
    /\ sup' = "select"
    /\ UNCHANGED <<env, fragments, Non2xxErrors, task, wg, resultsCh, ctxErr, ret, events>>
    /\ UNCHANGED <<routeVars, serverVars, builderVars, handlerVars, signVars>>

\* the timer of context.WithTimeout fires
DeadlineElapses ==
    /\ sup \in {"launch", "select"}
    /\ ctxErr = "no"
    /\ ctxErr' = "DeadlineExceeded"
    /\ events' = Note("deadline")
    /\ UNCHANGED <<env, fragments, Non2xxErrors, sup, task, wg, waiter, resultsCh, ret>>
    /\ UNCHANGED <<routeVars, serverVars, builderVars, handlerVars, signVars>>

\* a goroutine that goes on to send its result whatever fetchUrl returned
AfterFetchNoErrSend(err) == "ressend"

\* goroutine i, lines 221-225: the send that follows fetchUrl
AfterFetch(err) == IF err # Nil THEN "errsend" ELSE "ressend"

\* goroutine i, line 219: fetchUrl returns
Fetched(i, out) ==
    /\ task[i].pc = "fetch"
    /\ task' = [task EXCEPT ![i] =
                   [pc |-> AfterFetch(out.err),
                    result |-> out.result, err |-> out.err,
                    status |-> out.status, late |-> ret.done]]
    /\ events' = IF out.err # Nil /\ ~ret.done THEN Note("failure") ELSE events
    /\ UNCHANGED <<env, fragments, Non2xxErrors, sup, wg, waiter, resultsCh, ctxErr, ret>>
    /\ UNCHANGED <<routeVars, serverVars, builderVars, handlerVars, signVars>>

FetchUrl(i) ==
    \E up \in Upstream : Fetched(i, fetchUrl(i, fragments[i].url, Non2xxErrors, up))

FetchUrlCtxDone(i) ==
    /\ ctxErr # "no"
    /\ Fetched(i, fetchUrlCtxDone(i, ctxErr))

\* a resultsCh made with one slot too few
ResultsChCapShort == Len(fragments) - 1

\* line 194: the capacity of resultsCh
ResultsChCap == Len(fragments)

\* goroutine i, lines 225 and 199: resultsCh <- result, then wg.Done()
SendResult(i) ==
    /\ task[i].pc = "ressend"
    /\ Len(resultsCh) < ResultsChCap
    /\ resultsCh' = Append(resultsCh, task[i].result)
    /\ wg' = wg - 1
    /\ task' = [task EXCEPT ![i].pc = "exit"]
    /\ events' = IF /\ ~ret.done
                    /\ Len(task) = Len(fragments)
                    /\ \A j \in 1..Len(task) :
                           task'[j].pc = "exit" /\ task'[j].err = Nil
                 THEN Note("allsuccess") ELSE events
    /\ UNCHANGED <<env, fragments, Non2xxErrors, sup, waiter, ctxErr, ret>>
    /\ UNCHANGED <<routeVars, serverVars, builderVars, handlerVars, signVars>>

\* lines 232-233: wg.Wait() returns and done is closed
CloseDone ==
    /\ waiter = "waiting"
    /\ wg = 0
    /\ waiter' = "closed"
    /\ UNCHANGED <<env, fragments, Non2xxErrors, sup, task, wg, resultsCh, ctxErr, ret, events>>
    /\ UNCHANGED <<routeVars, serverVars, builderVars, handlerVars, signVars>>

\* the cases of the select of line 236 that can proceed
ErrChReady(i) == task[i].pc = "errsend"
DoneReady == waiter = "closed"
CtxDoneAlways == TRUE
CtxDoneNever == FALSE
CtxDoneReady == ctxErr # "no"

\* lines 237-239: goroutine i's error is received; cancel(), return.
\* The deferred cancel of line 190 runs at every return.
SelectErr(i) ==
    /\ sup = "select"
    /\ ErrChReady(i)
    /\ task' = [task EXCEPT ![i].pc = "ressend"]
    /\ ctxErr' = cancel(ctxErr)
    /\ ret' = Record(ErrReturn(task[i].err))
    /\ sup' = "returned"
    /\ UNCHANGED <<env, fragments, Non2xxErrors, wg, waiter, resultsCh, events>>
    /\ UNCHANGED <<routeVars, serverVars, builderVars, handlerVars, signVars>>

\* lines 240-251
SelectDone ==
    /\ sup = "select"
    /\ DoneReady
    /\ ret' = Record(DoneReturn)
    /\ resultsCh' = SubSeq(resultsCh, Len(fragments) + 1, Len(resultsCh))
    /\ ctxErr' = cancel(ctxErr)
    /\ sup' = "returned"
    /\ UNCHANGED <<env, fragments, Non2xxErrors, task, wg, waiter, events>>
    /\ UNCHANGED <<routeVars, serverVars, builderVars, handlerVars, signVars>>

\* lines 252-253
SelectTimeout ==
    /\ sup = "select"
    /\ CtxDoneReady
    /\ ret' = Record(TimeoutReturn)
    /\ ctxErr' = cancel(ctxErr)
    /\ sup' = "returned"
    /\ UNCHANGED <<env, fragments, Non2xxErrors, task, wg, waiter, resultsCh, events>>
    /\ UNCHANGED <<routeVars, serverVars, builderVars, handlerVars, signVars>>

NextMux ==
    \/ \E u \in Urls : WithFragment(u)
    \/ SetNon2xxErrors
    \/ DoStart
    \/ Launch
    \/ LaunchWaiter
    \/ DeadlineElapses
    \/ \E i \in 1..Len(task) : FetchUrl(i)
    \/ \E i \in 1..Len(task) : FetchUrlCtxDone(i)
    \/ \E i \in 1..Len(task) : SendResult(i)
    \/ CloseDone
    \/ \E i \in 1..Len(task) : SelectErr(i)
    \/ SelectDone
    \/ SelectTimeout
(***************************************************************************)
(* responseBuilder (src/response_builder.go).                              *)
(***************************************************************************)
MaxResults == 2       \* most content fragment results handed to SetFragments

\* the placeholders "{{{VIEW_PROXY_CONTENT}}}" and
\* "{{{VIEW_PROXY_PAGE_TITLE}}}", shortened to two characters that share
\* their first one as the placeholders share "{{{VIEW_PROXY_"
ContentPlaceholder == <<"{", "C">>
TitlePlaceholder == <<"{", "T">>

MaxLayoutLen == 4     \* longest layout body, in characters
LayoutChars == {"{", "C", "T"}
FragmentBodies == {<<"x">>, <<"{", "T">>, <<"{", "C">>}
TitleHeaders == {<<>>, <<"t">>, <<"u">>}     \* <<>>: the header is absent or empty
LayoutTitleHeader == <<"l">>        \* the layout response sets the header too
DefaultPageTitles == {<<"d">>}

\* the multiplexer.Result of a fetch, as far as the builder reads it: Body
\* and HttpResponse.Header.Get("X-View-Proxy-Title")
BuilderResults == [Body : FragmentBodies, Title : TitleHeaders]

RECURSIVE SeqsOfLen(_, _)
SeqsOfLen(S, n) ==
    IF n = 0 THEN {<<>>}
    ELSE {<<x>> \o t : x \in S, t \in SeqsOfLen(S, n - 1)}

\* bytes.Index(s, sep) as a 1-based position, 0 when sep is not in s
Index(s, sep) ==
    LET at == {i \in 1..(Len(s) - Len(sep) + 1) : SubSeq(s, i, i + Len(sep) - 1) = sep}
    IN  IF at = {} THEN 0 ELSE CHOOSE i \in at : \A j \in at : i <= j

\* bytes.Replace(s, old, new, 1) for a non-empty old
Replace1(s, old, new) ==
    LET i == Index(s, old)
    IN  IF i = 0 THEN s
        ELSE SubSeq(s, 1, i - 1) \o new \o SubSeq(s, i + Len(old), Len(s))

\* newResponseBuilder
newResponseBuilder == [body |-> <<>>, StatusCode |-> 200]

BuilderInit ==
    /\ rb = newResponseBuilder
    /\ DefaultPageTitle \in DefaultPageTitles
    /\ built = [layout |-> Nil, done |-> FALSE, fragments |-> <<>>, title |-> <<>>]

BuilderIdle ==
    /\ rb = newResponseBuilder
    /\ DefaultPageTitle = <<"d">>
    /\ built = [layout |-> Nil, done |-> FALSE, fragments |-> <<>>, title |-> <<>>]

\* responseBuilder.SetLayout
SetLayout(result) ==
    /\ built.layout = Nil /\ ~built.done
    /\ rb' = [rb EXCEPT !.body = result.Body]
    /\ built' = [built EXCEPT !.layout = result]
    /\ UNCHANGED DefaultPageTitle
    /\ UNCHANGED <<routeVars, serverVars, muxVars, handlerVars, signVars>>

\* a loop in which a title, once set, is kept
RECURSIVE SetFragmentsLoopFirst(_, _, _, _)
SetFragmentsLoopFirst(results, i, contentHtml, pageTitle) ==
    IF i > Len(results) THEN <<contentHtml, pageTitle>>
    ELSE SetFragmentsLoopFirst(results, i + 1, contentHtml \o results[i].Body,
             IF results[i].Title # <<>> /\ pageTitle = <<>>
             THEN results[i].Title ELSE pageTitle)

\* the loop of SetFragments: <<contentHtml, pageTitle>> after results[i..]
RECURSIVE SetFragmentsLoop(_, _, _, _)
SetFragmentsLoop(results, i, contentHtml, pageTitle) ==
    IF i > Len(results) THEN <<contentHtml, pageTitle>>
    ELSE SetFragmentsLoop(results, i + 1, contentHtml \o results[i].Body,
             IF results[i].Title # <<>> THEN results[i].Title ELSE pageTitle)

\* responseBuilder.SetFragments, lines 37-50: pageTitle
SetFragmentsTitle(results, defaultTitle) ==
    LET acc == SetFragmentsLoop(results, 1, <<>>, <<>>)
    IN  IF acc[2] = <<>> THEN defaultTitle ELSE acc[2]

\* responseBuilder.SetFragments: the new rb.body
SetFragmentsBody(body, results, defaultTitle) ==
    LET acc == SetFragmentsLoop(results, 1, <<>>, <<>>)
        contentHtml == acc[1]
        pageTitle == SetFragmentsTitle(results, defaultTitle)
    IN  IF Len(body) = 0 THEN contentHtml
        ELSE Replace1(Replace1(body, ContentPlaceholder, contentHtml),
                      TitlePlaceholder, pageTitle)

SetFragments(results) ==
    /\ ~built.done
    /\ rb' = [rb EXCEPT !.body = SetFragmentsBody(rb.body, results, DefaultPageTitle)]
    /\ built' = [built EXCEPT !.done = TRUE, !.fragments = results,
                              !.title = SetFragmentsTitle(results, DefaultPageTitle)]
    /\ UNCHANGED DefaultPageTitle
    /\ UNCHANGED <<routeVars, serverVars, muxVars, handlerVars, signVars>>

NextBuilder ==
    \/ \E b \in StringsUpTo(LayoutChars, MaxLayoutLen) :
           SetLayout([Body |-> b, Title |-> LayoutTitleHeader])
    \/ \E n \in 0..MaxResults : \E results \in SeqsOfLen(BuilderResults, n) :
           SetFragments(results)

(***************************************************************************)
(* Server as an http.Handler: the ignore set, ListenAndServe and ServeHTTP *)
(* (src/response_builder.go).                                              *)
(*                                                                         *)
(* A header name is <<name, form>>: the name in lower case and the letter  *)
(* case it is written in, "lower", "upper" or "canonical" (the form of     *)
(* textproto.CanonicalMIMEHeaderKey, the one net/http stores keys in).     *)
(***************************************************************************)
HeaderBases == {"content-length", "x-a"}
\* the names the application calls IgnoreHeader with
IgnoreNames == {<<b, f>> : b \in HeaderBases, f \in {"canonical", "upper"}}
\* the literal "Content-Length" of ListenAndServe
ContentLength == <<"content-length", "canonical">>

\* a lowering that leaves the name as it was written
ToLowerAsGiven(name) == name

\* strings.ToLower
ToLower(name) == <<name[1], "lower">>

\* textproto.CanonicalMIMEHeaderKey
CanonicalMIMEHeaderKey(name) == <<name[1], "canonical">>

\* http.Header.Add
HeaderAdd(h, name, value) ==
    LET k == CanonicalMIMEHeaderKey(name)
    IN  MapSet(h, k, IF k \in DOMAIN h THEN Append(h[k], value) ELSE <<value>>)

\* http.Header.Del
HeaderDel(h, name) ==
    [k \in (DOMAIN h) \ {CanonicalMIMEHeaderKey(name)} |-> h[k]]

\* for _, value := range values { w.Header().Add(name, value) }
RECURSIVE AddValues(_, _, _, _)
AddValues(w, name, values, i) ==
    IF i > Len(values) THEN w
    ELSE AddValues(HeaderAdd(w, name, values[i]), name, values, i + 1)

\* the header loop of ServeHTTP over the names still to visit
RECURSIVE CopyHeaders(_, _, _, _)
CopyHeaders(w, header, names, ign) ==
    IF names = {} THEN w
    ELSE LET name == CHOOSE n \in names : TRUE
         IN  CopyHeaders(IF ToLower(name) \notin ign
                         THEN AddValues(w, name, header[name], 1) ELSE w,
                         header, names \ {name}, ign)

\* the first loop of responseBuilder.SetHeaders
RECURSIVE AddHeaders(_, _, _)
AddHeaders(w, header, names) ==
    IF names = {} THEN w
    ELSE LET name == CHOOSE n \in names : TRUE
         IN  AddHeaders(AddValues(w, name, header[name], 1), header, names \ {name})

\* the second loop of responseBuilder.SetHeaders
RECURSIVE DelHeaders(_, _)
DelHeaders(w, ign) ==
    IF ign = {} THEN w
    ELSE LET ignoredHeader == CHOOSE n \in ign : TRUE
         IN  DelHeaders(HeaderDel(w, ignoredHeader), ign \ {ignoredHeader})

\* the response headers of the layout, keyed as net/http stores them
HeaderValues == {<<"1">>, <<"1", "2">>}
LayoutHeaders ==
    UNION {[D -> HeaderValues] :
               D \in SUBSET {CanonicalMIMEHeaderKey(<<b, "lower">>) : b \in HeaderBases}}

\* the multiplexer.Result values ServeHTTP reads: Body, HttpResponse.Header
\* and HttpResponse.Header.Get("X-View-Proxy-Title")
LayoutResults ==
    [Body : {<<"{", "C", "{", "T">>}, Title : {LayoutTitleHeader}, Header : LayoutHeaders]
FragmentResults ==
    [Body : {<<"x">>}, Title : {<<>>, <<"t">>}, Header : {EmptyMap}]

\* what multiplexer.Fetch returns for n urls: a result per url and a nil
\* error, or no result and the error, as Request.Do does (lines 236-254)
FetchOutcomes(n) ==
    {[results |-> <<l>> \o fs, err |-> Nil] :
         l \in LayoutResults, fs \in SeqsOfLen(FragmentResults, n - 1)}
    \cup {[results |-> <<>>, err |-> [kind |-> k]] : k \in {"fetch", "DeadlineExceeded"}}

NotFoundBody == <<"4", "0", "4">>

NotServed ==
    [done |-> FALSE, via |-> "none", found |-> FALSE, err |-> Nil, results |-> <<>>,
     read |-> {}, panicked |-> FALSE, header |-> EmptyMap, body |-> <<>>,
     wrote |-> FALSE, ignored |-> {}]

HandlerInit ==
    /\ ignoreHeaders = {}
    /\ ignored = {}
    /\ listening = FALSE
    /\ served = NotServed

HandlerIdle == HandlerInit

\* Server.IgnoreHeader: the new key set
IgnoreHeaderKeys(keys, name) == keys \cup {ToLower(name)}

IgnoreHeader(name) ==
    /\ ignoreHeaders' = IgnoreHeaderKeys(ignoreHeaders, name)
    /\ ignored' = ignored \cup {name}
    /\ UNCHANGED <<listening, served>>
    /\ UNCHANGED <<routeVars, serverVars, muxVars, builderVars, signVars>>

\* Server.ListenAndServe, up to the blocking httpServer.ListenAndServe()
ListenAndServe ==
    /\ ~listening
    /\ ignoreHeaders' = IgnoreHeaderKeys(ignoreHeaders, ContentLength)
    /\ ignored' = ignored \cup {ContentLength}
    /\ listening' = TRUE
    /\ UNCHANGED served
    /\ UNCHANGED <<routeVars, serverVars, muxVars, builderVars, signVars>>

\* Server.ServeHTTP from the return of the aggregate fetch on (lines 139-171)
ServeHTTPFetched(out) ==
    IF Len(out.results) = 0
    THEN \* results[0] of line 146: index out of range
         [NotServed EXCEPT !.done = TRUE, !.via = "ServeHTTP", !.found = TRUE,
                           !.err = out.err, !.results = out.results,
                           !.read = {0}, !.panicked = TRUE, !.ignored = ignored]
    ELSE LET layoutHtml == out.results[1].Body
             header == out.results[1].Header
             rest == SubSeq(out.results, 2, Len(out.results))
             acc == SetFragmentsLoop(rest, 1, <<>>, DefaultPageTitle)
             outputHtml == Replace1(Replace1(layoutHtml, ContentPlaceholder, acc[1]),
                                    TitlePlaceholder, acc[2])
         IN  [NotServed EXCEPT !.done = TRUE, !.via = "ServeHTTP", !.found = TRUE,
                               !.err = out.err, !.results = out.results,
                               !.read = 0..(Len(out.results) - 1),
                               !.header = CopyHeaders(EmptyMap, header, DOMAIN header,
                                                      ignoreHeaders),
                               !.body = outputHtml, !.wrote = TRUE,
                               !.ignored = ignored]

\* Server.ServeHTTP for the request path p, out being what the aggregate
\* fetch returns when a route matches
ServeHTTP(p, out) ==
    /\ LET m == matchingRoute(routes, p)
       IN  IF m.route = Nil
           THEN /\ out = Nil
                /\ served' = [NotServed EXCEPT !.done = TRUE, !.via = "ServeHTTP",
                                               !.body = NotFoundBody, !.wrote = TRUE,
                                               !.ignored = ignored]
           ELSE /\ out \in FetchOutcomes(1 + Len(m.route.fragments))
                /\ served' = ServeHTTPFetched(out)
    /\ UNCHANGED <<ignoreHeaders, ignored, listening>>
    /\ UNCHANGED <<routeVars, serverVars, muxVars, builderVars, signVars>>

\* responseBuilder.SetHeaders on a new ResponseWriter
SetHeaders(headers) ==
    /\ served' = [NotServed EXCEPT
                      !.done = TRUE, !.via = "SetHeaders", !.found = TRUE,
                      !.results = <<[Body |-> <<>>, Title |-> <<>>, Header |-> headers]>>,
                      !.header = DelHeaders(AddHeaders(EmptyMap, headers, DOMAIN headers),
                                            ignoreHeaders),
                      !.ignored = ignored]
    /\ UNCHANGED <<ignoreHeaders, ignored, listening>>
    /\ UNCHANGED <<routeVars, serverVars, muxVars, builderVars, signVars>>

HandlerPaths == {<<"/", "a">>, <<"a">>}
HandlerFragments == {<<>>, <<"fragment">>}

NextHandler ==
    \/ \E fs \in HandlerFragments : Get(<<"/", "a">>, "layout1", fs)
    \/ \E name \in IgnoreNames : IgnoreHeader(name)
    \/ ListenAndServe
    \/ \E p \in HandlerPaths :
           \E out \in {Nil} \cup FetchOutcomes(1) \cup FetchOutcomes(2) : ServeHTTP(p, out)
    \/ \E headers \in LayoutHeaders : SetHeaders(headers)

(***************************************************************************)
(* The outbound request of one fetch: headersWithHmac, pathFromFullUrl,    *)
(* the fetch task of Do and DoSingle (src/pkg/server/server.go).           *)
(*                                                                         *)
(* A URL is a sequence of characters whose first element "H" stands for    *)
(* the scheme and the host.                                                *)
(***************************************************************************)
MaxClock == 2         \* the seconds the clock advances during a run

FetchUrls ==
    { <<"H", "/", "f">>, <<"H", "/", "f", "?", "x">>, <<"H", "/", "f", "?">>,
      <<"H", "/", "f", "?", "x", "?">> }
HmacSecrets == {<<>>, <<"k">>, <<"K">>}
\* Request.Header as the caller filled it, one of them with the
\* Authorization header of the inbound request
RequestHeaders ==
    { EmptyMap, [k \in {"Accept"} |-> <<"a">>], [k \in {"Authorization"} |-> <<"c">>] }
\* the deadline of the context the caller passes, as ctx.Deadline() returns
\* it: whether one is set and, if so, the seconds from the call to it
NoDeadline == [ok |-> FALSE, d |-> 0]
ParentDeadlines == {NoDeadline, [ok |-> TRUE, d |-> 5], [ok |-> TRUE, d |-> 20]}

\* the digits of fmt.Sprintf("%d", n) for n >= 0
Digit(d) ==
    CASE d = 0 -> "0" [] d = 1 -> "1" [] d = 2 -> "2" [] d = 3 -> "3" [] d = 4 -> "4"
      [] d = 5 -> "5" [] d = 6 -> "6" [] d = 7 -> "7" [] d = 8 -> "8" [] d = 9 -> "9"
RECURSIVE Sprintd(_)
Sprintd(n) == IF n < 10 THEN <<Digit(n)>> ELSE Sprintd(n \div 10) \o <<Digit(n % 10)>>

\* url.Parse as far as Path and RawQuery go: the query starts after the
\* first "?"
UrlParse(fullUrl) ==
    LET rest == Tail(fullUrl)
        q == Index(rest, <<"?">>)
    IN  IF q = 0 THEN [Path |-> rest, RawQuery |-> <<>>]
        ELSE [Path |-> SubSeq(rest, 1, q - 1), RawQuery |-> SubSeq(rest, q + 1, Len(rest))]

\* a path that leaves the query out
pathFromFullUrlNoQuery(fullUrl) == UrlParse(fullUrl).Path

pathFromFullUrl(fullUrl) ==
    LET targetUrl == UrlParse(fullUrl)
    IN  IF targetUrl.RawQuery # <<>>
        THEN targetUrl.Path \o <<"?">> \o targetUrl.RawQuery
        ELSE targetUrl.Path

\* hex.EncodeToString of the HMAC-SHA256 of message under secret: a value
\* that differs whenever the secret or the message differs
HmacSha256Hex(secret, message) == <<"hmac-sha256", secret, message>>

\* http.Header.Set
HeaderSet(h, k, v) == MapSet(h, k, <<v>>)

\* Request.headersWithHmac at the clock value now
headersWithHmac(header, secret, url, now) ==
    LET timestamp == Sprintd(now)
        mac == HmacSha256Hex(secret, pathFromFullUrl(url) \o <<",">> \o timestamp)
    IN  HeaderSet(HeaderSet(header, "Authorization", mac),
                  "X-Authorization-Time", timestamp)

\* context.WithTimeout(ctx, timeout): the deadline of the derived context
WithTimeout(parent, timeout) ==
    IF parent.ok /\ parent.d < timeout THEN parent ELSE [ok |-> TRUE, d |-> timeout]

NewSignRequest == [Header |-> EmptyMap, HmacSecret |-> <<>>, Timeout |-> 10]

NotFetched ==
    [done |-> FALSE, by |-> "none", url |-> <<>>, Header |-> EmptyMap,
     deadline |-> NoDeadline, at |-> 0]

SignInit ==
    /\ request \in [Header : RequestHeaders, HmacSecret : HmacSecrets, Timeout : {10}]
    /\ clock = 0
    /\ outbound = NotFetched

SignIdle ==
    /\ request = NewSignRequest
    /\ clock = 0
    /\ outbound = NotFetched

Tick ==
    /\ clock < MaxClock
    /\ clock' = clock + 1
    /\ UNCHANGED <<request, outbound>>
    /\ UNCHANGED <<routeVars, serverVars, muxVars, builderVars, handlerVars>>

\* the request one fetch goroutine of Do sends for url (lines 189 and
\* 214-219, and the header loop of fetchUrl)
DoFetch(url, parent) ==
    /\ outbound' =
           [done |-> TRUE, by |-> "Do", url |-> url,
            Header |-> IF request.HmacSecret # <<>>
                       THEN headersWithHmac(request.Header, request.HmacSecret, url, clock)
                       ELSE request.Header,
            deadline |-> WithTimeout(parent, request.Timeout),
            at |-> clock]
    /\ UNCHANGED <<request, clock>>
    /\ UNCHANGED <<routeVars, serverVars, muxVars, builderVars, handlerVars>>

\* the request Request.DoSingle sends for url
DoSingle(url, parent) ==
    /\ outbound' =
           [done |-> TRUE, by |-> "DoSingle", url |-> url,
            Header |-> request.Header,
            deadline |-> parent,
            at |-> clock]
    /\ UNCHANGED <<request, clock>>
    /\ UNCHANGED <<routeVars, serverVars, muxVars, builderVars, handlerVars>>

NextSign ==
    \/ Tick
    \/ \E url \in FetchUrls, parent \in ParentDeadlines : DoFetch(url, parent)
    \/ \E url \in FetchUrls, parent \in ParentDeadlines : DoSingle(url, parent)

(***************************************************************************)
(* Specifications.                                                         *)
(***************************************************************************)
NextRoute == MatchParts \/ ParametersFor

NextServer ==
    \/ \E p \in RoutePatterns, l \in Layouts : Get(p, l, <<"fragment">>)
    \/ \E p \in LookupPaths : Lookup(p)

InitRoute == RouteInit /\ ServerInit /\ MuxIdle /\ BuilderIdle /\ HandlerIdle /\ SignIdle
SpecRoute == InitRoute /\ [][NextRoute]_vars

InitServer == ServerInit /\ RouteIdle /\ MuxIdle /\ BuilderIdle /\ HandlerIdle /\ SignIdle
SpecServer == InitServer /\ [][NextServer]_vars

Init == MuxInit /\ RouteIdle /\ ServerInit /\ BuilderIdle /\ HandlerIdle /\ SignIdle
Next == NextMux
Spec == Init /\ [][Next]_vars

\* Do under the scheduling of the Go runtime: the goroutine that runs Do
\* goes on whenever it can, its select takes a case once one is ready, and
\* the timer of the context fires. Nothing is assumed of the upstream, so
\* a fetch goroutine may stay in fetchUrl forever.
SelectCase == (\E i \in 1..Len(task) : SelectErr(i)) \/ SelectDone \/ SelectTimeout
FairSpec ==
    /\ Init /\ [][Next]_vars
    /\ WF_vars(Launch)
    /\ WF_vars(LaunchWaiter)
    /\ WF_vars(DeadlineElapses)
    /\ WF_vars(SelectCase)

InitStatus == MuxInitStatus /\ RouteIdle /\ ServerInit /\ BuilderIdle /\ HandlerIdle /\ SignIdle
SpecStatus == InitStatus /\ [][NextMux]_vars

InitHandler == HandlerInit /\ RouteIdle /\ ServerInit /\ MuxIdle /\ BuilderIdle /\ SignIdle
SpecHandler == InitHandler /\ [][NextHandler]_vars

InitSign == SignInit /\ RouteIdle /\ ServerInit /\ MuxIdle /\ BuilderIdle /\ HandlerIdle
SpecSign == InitSign /\ [][NextSign]_vars

InitBuilder == BuilderInit /\ RouteIdle /\ ServerInit /\ MuxIdle /\ HandlerIdle /\ SignIdle
SpecBuilder == InitBuilder /\ [][NextBuilder]_vars

(***************************************************************************)
(* Claims.                                                                 *)
(***************************************************************************)
IsParam(seg) == HasPrefix(seg, ":")
ParamName(seg) == SubSeq(seg, 2, Len(seg))

\* C7: matchParts returns true iff the route and the path have the same
\* number of segments and every route segment that does not begin with ':'
\* equals the path segment at the same position.
C7_MatchIff ==
    matched.done =>
        LET rp == route.Parts
            pp == Split(path)
        IN  matched.value =
                (/\ Len(rp) = Len(pp)
                 /\ \A i \in 1..Len(rp) : ~IsParam(rp[i]) => rp[i] = pp[i])

\* a parameter segment matched a path segment that differs from it, next to
\* a literal segment
C7_Witness ==
    /\ matched.done /\ matched.value = TRUE
    /\ \E i \in 1..Len(route.Parts) :
           IsParam(route.Parts[i]) /\ route.Parts[i] # Split(path)[i]
    /\ \E i \in 1..Len(route.Parts) : ~IsParam(route.Parts[i])

\* C8 as stated: the map has, for every parameter segment, the path segment
\* at that position under the parameter's name, and no other keys.
C8_EveryParamSegment ==
    params.done =>
        LET rp == route.Parts
            pp == Split(path)
        IN  /\ DOMAIN params.value = {ParamName(rp[i]) : i \in {k \in 1..Len(rp) : IsParam(rp[k])}}
            /\ \A i \in 1..Len(rp) : IsParam(rp[i]) => params.value[ParamName(rp[i])] = pp[i]

\* C8 amended: the keys are the parameter names of the route, and each name
\* maps to the path segment at the position of the last parameter segment
\* with that name.
C8_LastParamSegmentWins ==
    params.done =>
        LET rp == route.Parts
            pp == Split(path)
            P  == {k \in 1..Len(rp) : IsParam(rp[k])}
        IN  /\ DOMAIN params.value = {ParamName(rp[i]) : i \in P}
            /\ \A i \in P :
                   (\A j \in P : j > i => ParamName(rp[j]) # ParamName(rp[i]))
                       => params.value[ParamName(rp[i])] = pp[i]
            /\ (P = {} => params.value = EmptyMap)

\* two parameter segments share a name and take different values
C8_Witness ==
    /\ params.done
    /\ \E i, j \in 1..Len(route.Parts) :
           /\ i < j
           /\ IsParam(route.Parts[i]) /\ IsParam(route.Parts[j])
           /\ ParamName(route.Parts[i]) = ParamName(route.Parts[j])
           /\ Split(path)[i] # Split(path)[j]

\* C9: matchingRoute returns the earliest registered route that matches the
\* path, with its parameters, and nil iff no registered route matches; the
\* table holds the routes in the order of the Get calls.
C9_FirstMatchWins ==
    /\ Len(routes) = Len(registered)
    /\ \A i \in 1..Len(routes) :
           routes[i] = newRoute(registered[i][1], registered[i][2], registered[i][3])
    /\ lookup.done =>
        LET parts == Split(lookup.path)
            reg(i) == newRoute(registered[i][1], registered[i][2], registered[i][3])
            hits  == {i \in 1..lookup.after :
                         /\ Len(reg(i).Parts) = Len(parts)
                         /\ \A k \in 1..Len(parts) :
                                ~IsParam(reg(i).Parts[k]) => reg(i).Parts[k] = parts[k]}
            v     == lookup.value
        IN  /\ (hits = {}) <=> (v.route = Nil)
            /\ hits = {} => v.parameters = Nil
            /\ hits # {} =>
                   /\ v.idx \in hits
                   /\ \A j \in hits : v.idx <= j
                   /\ v.route = reg(v.idx)
                   /\ v.parameters = parametersFor(reg(v.idx), parts)

\* a lookup found two registered routes matching and returned the first,
\* which differs from the second
C9_Witness ==
    /\ lookup.done
    /\ Len(routes) = 2 /\ lookup.after = 2
    /\ matchParts(routes[1], Split(lookup.path))
    /\ matchParts(routes[2], Split(lookup.path))
    /\ routes[1] # routes[2]
    /\ lookup.value.route = routes[1]

\* a lookup matched no registered route although the table is not empty
C9_WitnessNoMatch ==
    lookup.done /\ lookup.after = 2 /\ lookup.value.route = Nil

Failed(i) == task[i].err # Nil
TaskErrors == {task[i].err : i \in {k \in 1..Len(task) : Failed(k)}}
DeadlineError == [kind |-> "DeadlineExceeded"]

\* C1: when Do returns without error it returns one result per fragment
\* and result i is the one produced by the goroutine launched for input i.
C1_ResultsInInputOrder ==
    (ret.done /\ ret.err = Nil) =>
        /\ Len(ret.results) = Len(fragments)
        /\ \A i \in 1..Len(fragments) : ret.results[i] = task[i].result

\* C2: if a fetch goroutine fails, Do returns an error and an empty result
\* list: results the other goroutines produced are not returned.
C2_AllOrNone ==
    (ret.done /\ \E i \in 1..Len(task) : Failed(i)) =>
        /\ ret.err # Nil
        /\ ret.results = <<>>

\* Do returned a goroutine's error while the result of another goroutine
\* was already buffered in resultsCh
C2_Witness ==
    /\ ret.done
    /\ ret.err \in TaskErrors
    /\ \E k \in 1..Len(resultsCh) : resultsCh[k] # Nil
    /\ \E i \in 1..Len(task) : task[i].pc = "exit" /\ ~task[i].late /\ task[i].result # Nil

\* the deadline elapsed before Do returned and before every goroutine had
\* completed successfully
DeadlineBeforeAll(seen) ==
    \E k \in 1..Len(seen) :
        seen[k] = "deadline" /\ \A j \in 1..(k - 1) : seen[j] # "allsuccess"

\* C3 as stated: if the deadline elapses before all fetch goroutines have
\* completed, Do returns the timeout error and an empty result list.
\* (Stated for the calls with at least one fragment.)
C3_DeadlineReturnsTimeout ==
    (ret.done /\ fragments # <<>> /\ DeadlineBeforeAll(ret.seen)) =>
        /\ ret.err = DeadlineError
        /\ ret.results = <<>>

\* C3 amended: if the deadline elapses before all fetch goroutines have
\* completed, Do never returns a partial result set: it returns an empty
\* list with the timeout error (which is no goroutine's error) or with the
\* error of a goroutine that failed, or the complete results with no error.
C3_DeadlineNeverPartial ==
    (ret.done /\ DeadlineBeforeAll(ret.seen)) =>
        \/ /\ ret.err = DeadlineError
           /\ ret.err \notin TaskErrors
           /\ ret.results = <<>>
        \/ /\ ret.err \in TaskErrors
           /\ ret.results = <<>>
        \/ /\ ret.err = Nil
           /\ Len(ret.results) = Len(fragments)
           /\ \A k \in 1..Len(ret.results) : ret.results[k] # Nil
           /\ \A i \in 1..Len(task) : task[i].pc = "exit" /\ ~Failed(i)

\* Do returned the timeout error while one goroutine's result was buffered
\* and another goroutine was still fetching
C3_Witness ==
    /\ ret.done
    /\ ret.err = DeadlineError
    /\ \E k \in 1..Len(resultsCh) : resultsCh[k] # Nil
    /\ \E i \in 1..Len(task) : task[i].pc = "fetch"

\* which terminal condition Do's return value reports
Outcome(r) ==
    IF r.err = Nil THEN "allsuccess"
    ELSE IF r.err \in TaskErrors THEN "failure"
    ELSE IF r.err = DeadlineError THEN "deadline"
    ELSE "other"

\* C4 as stated: the terminal condition that occurred first decides what Do
\* returns; a condition that occurs later never overrides it.  (Stated for
\* the calls with at least one fragment.)
C4_FirstConditionWins ==
    (ret.done /\ fragments # <<>>) => Outcome(ret) = ret.seen[1]

\* C4 amended: Do's outcome is one of the terminal conditions that had
\* occurred when its select ran, so the only one to have occurred decides;
\* of several that had occurred any one may decide, also a later one.
C4_OccurredConditionWins ==
    ret.done =>
        /\ ret.seen # <<>>
        /\ \E k \in 1..Len(ret.seen) : Outcome(ret) = ret.seen[k]
        /\ Outcome(ret) = "allsuccess" =>
               \A i \in 1..Len(task) : task[i].pc = "exit" /\ ~Failed(i)

\* a condition that occurred second decided what Do returned
C4_Witness ==
    /\ ret.done
    /\ fragments # <<>>
    /\ Len(ret.seen) >= 2
    /\ Outcome(ret) = ret.seen[2]

\* C5: when Do returns an error (a goroutine failed or the deadline
\* elapsed), the context the goroutines share is done, and what Do
\* returned holds no result, whatever the other goroutines produce later.
C5_CancelledAndDiscarded ==
    (ret.done /\ ret.err # Nil) =>
        /\ ctxErr # "no"
        /\ ret.results = <<>>

\* after Do returned a goroutine's error before the deadline, another
\* goroutine completed its fetch and sent its result
C5_Witness ==
    /\ ret.done
    /\ ret.err \in TaskErrors
    /\ ctxErr = "Canceled"
    /\ \E i \in 1..Len(task) :
           task[i].late /\ task[i].result # Nil /\ task[i].pc = "exit"

\* C6: in strict mode, the default, a response yields a ResultError that
\* carries the Result, and no Result, iff its status is outside 200..299,
\* and Do returns no results once a goroutine has a ResultError; with
\* strict mode off every status yields a Result.
C6_StrictStatus ==
    /\ NewRequest.Non2xxErrors = TRUE
    /\ \A i \in 1..Len(task) :
           task[i].status # 0 =>
               LET result == [Url |-> fragments[i].url, StatusCode |-> task[i].status,
                              HttpResponse |-> i]
                   asError == /\ task[i].result = Nil
                              /\ task[i].err = [kind |-> "ResultError", task |-> i,
                                                Result |-> result]
                   asResult == task[i].result = result /\ task[i].err = Nil
               IN  /\ Non2xxErrors =>
                          /\ asError <=> task[i].status \notin 200..299
                          /\ asResult <=> task[i].status \in 200..299
                   /\ ~Non2xxErrors => asResult
    /\ ret.done =>
           \A i \in 1..Len(task) :
               (Failed(i) /\ task[i].err.kind = "ResultError") =>
                   ret.err # Nil /\ ret.results = <<>>

\* in strict mode a goroutine got status 300 and a ResultError, which Do
\* returned
C6_Witness ==
    /\ Non2xxErrors
    /\ ret.done
    /\ \E j \in 1..Len(task) :
           /\ task[j].status = 300 /\ task[j].err # Nil
           /\ ret.err = task[j].err

\* in strict mode a goroutine got status 299 and a Result, which Do returned
C6_WitnessEdge ==
    /\ Non2xxErrors
    /\ ret.done
    /\ \E i \in 1..Len(task) :
           task[i].status = 299 /\ ret.err = Nil /\ ret.results = <<task[i].result>>

\* with strict mode off a goroutine got status 300 and a Result
C6_WitnessLax ==
    /\ ~Non2xxErrors
    /\ \E i \in 1..Len(task) : task[i].status = 300 /\ task[i].result # Nil

\* the in-order concatenation of the bodies of results
RECURSIVE Concat(_)
Concat(results) ==
    IF results = <<>> THEN <<>> ELSE Head(results).Body \o Concat(Tail(results))

\* the title: the header of the last result that sets one, else the default
ResolvedTitle(results, defaultTitle) ==
    LET set == {i \in 1..Len(results) : results[i].Title # <<>>}
    IN  IF set = {} THEN defaultTitle
        ELSE results[CHOOSE i \in set : \A j \in set : j <= i].Title

\* layout with its first content placeholder replaced by content and its
\* first title placeholder replaced by title, both located in layout itself
Substituted(layout, content, title) ==
    LET c == Index(layout, ContentPlaceholder)
        t == Index(layout, TitlePlaceholder)
        piece(from, to) == SubSeq(layout, from, to)
        n == Len(layout)
    IN  IF c = 0 /\ t = 0 THEN layout
        ELSE IF t = 0 THEN piece(1, c - 1) \o content \o piece(c + 2, n)
        ELSE IF c = 0 THEN piece(1, t - 1) \o title \o piece(t + 2, n)
        ELSE IF c < t
             THEN piece(1, c - 1) \o content \o piece(c + 2, t - 1) \o title \o piece(t + 2, n)
             ELSE piece(1, t - 1) \o title \o piece(t + 2, c - 1) \o content \o piece(c + 2, n)

\* C10: with a layout body, the assembled body is the layout body with its
\* content placeholder replaced once by the concatenated fragment bodies
\* and its title placeholder replaced once by the resolved title, nothing
\* else changed; without one it is the concatenated fragment bodies.
C10_AssembledBody ==
    built.done =>
        LET content == Concat(built.fragments)
            title == ResolvedTitle(built.fragments, DefaultPageTitle)
        IN  IF built.layout # Nil /\ built.layout.Body # <<>>
            THEN rb.body = Substituted(built.layout.Body, content, title)
            ELSE rb.body = content

\* C11: the resolved page title is the title header of the last content
\* fragment, in order, that sets a non-empty one, and the default title
\* when none does; the layout result's title header plays no part.
C11_LastTitleWins ==
    built.done =>
        LET rs == built.fragments
            set == {i \in 1..Len(rs) : rs[i].Title # <<>>}
        IN  /\ set = {} => built.title = DefaultPageTitle
            /\ set # {} =>
                   \E i \in set : /\ \A j \in set : j <= i
                                  /\ built.title = rs[i].Title
            /\ built.title # LayoutTitleHeader

\* after a layout that sets the header, two fragments set different titles
C11_Witness ==
    /\ built.done
    /\ built.layout # Nil /\ built.layout.Title = LayoutTitleHeader
    /\ Len(built.fragments) = 2
    /\ built.fragments[1].Title # <<>>
    /\ built.fragments[2].Title # <<>>
    /\ built.fragments[1].Title # built.fragments[2].Title
    /\ built.title = built.fragments[2].Title

\* no fragment sets the header and the title is the default
C11_WitnessDefault ==
    /\ built.done
    /\ built.layout # Nil
    /\ Len(built.fragments) = 2
    /\ \A i \in 1..2 : built.fragments[i].Title = <<>>
    /\ built.title = DefaultPageTitle

\* C12: the outbound response carries a header of the layout response, with
\* all its values, iff no IgnoreHeader call named it, letter case aside;
\* it carries no other header.
C12_IgnoredIffNamed ==
    served.done /\ served.found /\ ~served.panicked =>
        LET header == served.results[1].Header
        IN  /\ DOMAIN served.header \subseteq DOMAIN header
            /\ \A name \in DOMAIN header :
                   (name \in DOMAIN served.header /\ served.header[name] = header[name])
                       <=> ~\E g \in served.ignored : g[1] = name[1]

\* ServeHTTP drops a header ignored under an upper-case name and forwards
\* the two values of another one
C12_Witness ==
    /\ served.done /\ served.via = "ServeHTTP" /\ served.wrote /\ served.found
    /\ served.ignored = {<<"x-a", "upper">>}
    /\ DOMAIN served.results[1].Header = {<<"x-a", "canonical">>, ContentLength}
    /\ DOMAIN served.header = {ContentLength}
    /\ Len(served.header[ContentLength]) = 2

\* SetHeaders drops a header ignored under an upper-case name
C12_WitnessSetHeaders ==
    /\ served.done /\ served.via = "SetHeaders"
    /\ served.ignored = {<<"x-a", "upper">>}
    /\ DOMAIN served.results[1].Header = {<<"x-a", "canonical">>, ContentLength}
    /\ DOMAIN served.header = {ContentLength}

\* C13: whenever ServeHTTP serves a request, whether or not ListenAndServe
\* was called before, Content-Length is in the ignore set, so that the
\* response written does not carry the Content-Length of the layout.
C13_ContentLengthNeverForwarded ==
    served.done /\ served.via = "ServeHTTP" /\ served.wrote =>
        ContentLength \notin DOMAIN served.header

\* C14: for a fragment URL with or without a query, the Authorization
\* header Do sends under a secret is the digest of "path?query,timestamp",
\* and X-Authorization-Time carries that timestamp.
C14_SignsPathQueryTimestamp ==
    outbound.done /\ outbound.by = "Do" /\ request.HmacSecret # <<>> =>
        LET u == UrlParse(outbound.url)
            timestamp == Sprintd(outbound.at)
        IN  /\ outbound.Header["Authorization"] =
                   <<HmacSha256Hex(request.HmacSecret,
                                   u.Path \o <<"?">> \o u.RawQuery \o <<",">> \o timestamp)>>
            /\ outbound.Header["X-Authorization-Time"] = <<timestamp>>

\* C14 as amended: the signed string is "path?query,timestamp" for a URL
\* with a non-empty query and "path,timestamp" for a URL without one; the
\* two headers replace the ones of the Request and carry the same timestamp.
C14_SignsPathThenQueryIfAny ==
    outbound.done /\ outbound.by = "Do" /\ request.HmacSecret # <<>> =>
        LET u == UrlParse(outbound.url)
            timestamp == Sprintd(outbound.at)
            signed == IF u.RawQuery = <<>> THEN u.Path \o <<",">> \o timestamp
                      ELSE u.Path \o <<"?">> \o u.RawQuery \o <<",">> \o timestamp
        IN  /\ outbound.Header["Authorization"] =
                   <<HmacSha256Hex(request.HmacSecret, signed)>>
            /\ outbound.Header["X-Authorization-Time"] = <<timestamp>>
            /\ \A k \in DOMAIN request.Header :
                   k # "Authorization" => outbound.Header[k] = request.Header[k]

\* a URL with a query and one without are signed, after the clock moved
C14_Witness ==
    /\ outbound.done /\ outbound.by = "Do" /\ request.HmacSecret # <<>>
    /\ UrlParse(outbound.url).RawQuery # <<>>
    /\ outbound.at > 0
    /\ "Authorization" \in DOMAIN request.Header

C14_WitnessNoQuery ==
    /\ outbound.done /\ outbound.by = "Do" /\ request.HmacSecret # <<>>
    /\ UrlParse(outbound.url).RawQuery = <<>>
    /\ outbound.at > 0

\* C15: the request DoSingle sends is the one a fetch task of Do sends for
\* the same Request, URL, caller context and clock: the same headers, the
\* HMAC ones included, under the same Timeout.
C15_DoSingleAsDoTask ==
    outbound.done /\ outbound.by = "DoSingle" =>
        /\ outbound.Header =
               IF request.HmacSecret # <<>>
               THEN headersWithHmac(request.Header, request.HmacSecret,
                                    outbound.url, outbound.at)
               ELSE request.Header
        /\ outbound.deadline.ok /\ outbound.deadline.d <= request.Timeout

\* C16: once the aggregate fetch has returned an error, ServeHTTP reads no
\* result slot and writes no body.
C16_NoReadAfterError ==
    served.done /\ served.via = "ServeHTTP" /\ served.err # Nil =>
        /\ served.read = {}
        /\ ~served.wrote
        /\ ~served.panicked

\* C17: every fetch goroutine Do launched eventually exits, also after Do
\* has returned, and the goroutine waiting for them ends too: none is ever
\* left at a send that nothing will receive. A goroutine at its send on
\* errCh after Do has returned is such a one, as only the select of Do
\* receives from errCh; so is the waiter, as wg then never reaches zero.
BlockedForever(i) == task[i].pc = "errsend" /\ sup = "returned"
C17_NoGoroutineBlockedForever ==
    /\ \A i \in 1..Len(task) : ~BlockedForever(i)
    /\ ~(waiter = "waiting" /\ \E i \in 1..Len(task) : BlockedForever(i))

\* C18: every call of Do returns, whatever the fetch goroutines do.
C18_DoReturns == (sup = "launch") ~> (sup = "returned" /\ ret.done)

\* Do returned on the deadline while a goroutine was still in fetchUrl
C18_Witness ==
    /\ sup = "returned" /\ ret.done
    /\ ret.err = DeadlineError
    /\ \E i \in 1..Len(task) : task[i].pc = "fetch"

\* Do returned for an empty fragment list
C18_WitnessEmpty ==
    /\ sup = "returned" /\ ret.done
    /\ fragments = <<>>

\* C19: when Do returns from its all-completed branch with a nil error,
\* each of the len(fragments) values it read is a non-nil Result, and done
\* is closed only when no goroutine failed.
C19_DoneOnlyWithoutFailure ==
    /\ (ret.done /\ ret.err = Nil) =>
           /\ Len(ret.results) = Len(fragments)
           /\ \A k \in 1..Len(ret.results) : ret.results[k] # Nil
    /\ waiter = "closed" => \A i \in 1..Len(task) : ~Failed(i)

\* C19 as amended: done is closed while Do has not returned only when no
\* goroutine failed; once Do has returned with the error of a goroutine,
\* that goroutine finishes and done may be closed after a failure.
C19_DoneBeforeReturnOnlyWithoutFailure ==
    /\ (ret.done /\ ret.err = Nil) =>
           /\ Len(ret.results) = Len(fragments)
           /\ \A k \in 1..Len(ret.results) : ret.results[k] # Nil
           /\ \A i \in 1..Len(task) : ~Failed(i)
    /\ (waiter = "closed" /\ sup # "returned") => \A i \in 1..Len(task) : ~Failed(i)
    /\ (waiter = "closed" /\ \E i \in 1..Len(task) : Failed(i)) =>
           \E i \in 1..Len(task) : Failed(i) /\ ret.err = task[i].err

\* Do returned two results from its all-completed branch
C19_Witness ==
    /\ ret.done /\ ret.err = Nil
    /\ Len(ret.results) = 2
    /\ waiter = "closed"

\* done was closed after a failure, Do having returned the error
C19_WitnessAfterError ==
    /\ waiter = "closed"
    /\ \E i \in 1..Len(task) : Failed(i)
    /\ ret.done /\ ret.err \in TaskErrors

\* C20: each fetch goroutine has sent at most one value on resultsCh: the
\* values buffered are never more than the goroutines that have exited
\* nor than len(fragments), and a goroutine at its send on resultsCh finds
\* room in the buffer, also after Do has returned.
C20_ResultSendNeverBlocks ==
    /\ Len(resultsCh) <= Cardinality({i \in 1..Len(task) : task[i].pc = "exit"})
    /\ Len(resultsCh) <= Len(fragments)
    /\ \A i \in 1..Len(task) : task[i].pc = "ressend" => Len(resultsCh) < ResultsChCap

\* after Do returned, a goroutine is at its send with a value buffered
C20_Witness ==
    /\ sup = "returned"
    /\ Len(resultsCh) = 1
    /\ \E i \in 1..Len(task) : task[i].pc = "ressend"

=============================================================================
